---------------------------- MODULE Spec2Model ----------------------------
(***************************************************************************)
(* A model of the persistent key-value store of morgangallant/trading     *)
(* (package main, the store file): CheckSizes, pstore (Get, Put, Delete,   *)
(* BeginBatch, CommitBatch, RangeScan), pbatch (Put, Delete) and piter     *)
(* (Next, Key), in front of a goleveldb handle.                            *)
(*                                                                         *)
(* Byte strings.  A Go string or []byte is modelled by its explicit bytes  *)
(* `pre` followed by `pad` filler bytes 0x00, so that a 16 KiB key or a    *)
(* 64 KiB value is a small value of the model while len() and the byte     *)
(* order are computed on the string it stands for.  A []byte also carries  *)
(* `nil`, Go's nil slice, which has length 0 but differs from an empty     *)
(* non-nil slice in `== nil` tests.                                        *)
(***************************************************************************)
EXTENDS Integers, Sequences, FiniteSets

VARIABLES
    db,        \* db[s]: contents of store s's engine (ps.ldb): key -> value
    batches,   \* batches[b]: the pbatch b, fields err and batch (pending ops)
    iters,     \* iters[i]: the piter i, fields it (engine cursor) and closed
    origin,    \* history: origin[b] is the store whose BeginBatch returned b
    added,     \* history: added[b] lists the arguments of the Put/Delete calls on b
    committed, \* history: the batches a CommitBatch call has written (returned nil)
    scans,     \* history: scans[i] has the arguments of the scan that made iters[i],
               \*   the keys stored at that time and the keys it has yielded so far
    last,      \* the last call: operation, arguments, results, engine writes
    calls,     \* number of calls made so far
    pc,        \* pc[t]: where goroutine t stands in its call on the shared batch
    job,       \* job[t]: the call goroutine t makes, with its arguments
    mu,        \* the batch's errmu: the goroutine that holds it, or Unlocked
    order,     \* history: the goroutines in the order they acquired errmu
    ret        \* ret[t]: what goroutine t's call returned, and its engine writes

vars == <<db, batches, iters, origin, added, committed, scans, last, calls,
          pc, job, mu, order, ret>>

-----------------------------------------------------------------------------
(* Bounds of the model *)

\* calls of the store's operations in one behaviour
MaxCalls == 4
\* batches BeginBatch hands out in one behaviour
MaxBatches == 1
\* Put/Delete calls on one batch
MaxOps == 2
\* iterators opened in one behaviour
MaxIters == 1
\* goroutines calling into one batch at the same time
MaxThreads == 3

-----------------------------------------------------------------------------
(* Byte strings *)

Str(pre, pad) == [pre |-> pre, pad |-> pad]

\* len(x) of a string or of a []byte
StrLen(x) == Len(x.pre) + x.pad

\* []byte(s): a non-nil slice with the bytes of s
AsBytes(s) == [nil |-> FALSE, pre |-> s.pre, pad |-> s.pad]

\* string(b): the bytes of b (nil gives "")
AsString(b) == [pre |-> b.pre, pad |-> b.pad]

\* the empty string
EmptyStr == Str(<<>>, 0)

\* the nil []byte
NilBytes == [nil |-> TRUE, pre |-> <<>>, pad |-> 0]

\* the i-th byte of x, 1 <= i <= len(x): an explicit byte or the filler 0x00
ByteAt(x, i) == IF i <= Len(x.pre) THEN x.pre[i] ELSE 0

Min2(a, b) == IF a <= b THEN a ELSE b

Max2(a, b) == IF a >= b THEN a ELSE b

\* bytes.Compare(x, y): -1, 0 or 1 in byte-lexicographic order.  Past the
\* explicit bytes of both, the two strings hold the filler up to the shorter
\* length, so the first difference, if any, lies within `m`.
Compare(x, y) ==
    LET n == Min2(StrLen(x), StrLen(y))
        m == Min2(n, Max2(Len(x.pre), Len(y.pre)))
        D == {i \in 1..m : ByteAt(x, i) # ByteAt(y, i)}
    IN  IF D # {}
        THEN LET i == CHOOSE j \in D : \A k \in D : j <= k
             IN  IF ByteAt(x, i) < ByteAt(y, i) THEN 0 - 1 ELSE 1
        ELSE IF StrLen(x) < StrLen(y) THEN 0 - 1
        ELSE IF StrLen(x) > StrLen(y) THEN 1
        ELSE 0

-----------------------------------------------------------------------------
(* Errors and size limits *)

Nil == "nil"
ErrKeyNotFound == "key not found"
ErrKeyTooLarge == "key too large"
ErrValueTooLarge == "value too large"
ErrInvalidBatch == "invalid batch mutation type"

\* the engine's own errors: leveldb.ErrNotFound and any other failure
LdbErrNotFound == "leveldb: not found"
LdbErrIO == "leveldb: closed"
LdbErrIterReleased == "leveldb: iterator released"

\* fmt.Errorf("leveldb error: %w", err)
Wrap(err) == "leveldb error: " \o err

MaxKeySize == 16384
MaxValueSize == 65536

\* mutant: the limits themselves are rejected (>= for >)
CheckSizesStrict(key, value) ==
    IF StrLen(key) >= MaxKeySize THEN ErrKeyTooLarge
    ELSE IF StrLen(value) >= MaxValueSize THEN ErrValueTooLarge
    ELSE Nil

\* mutant: the value is tested before the key
CheckSizesValueFirst(key, value) ==
    IF StrLen(value) > MaxValueSize THEN ErrValueTooLarge
    ELSE IF StrLen(key) > MaxKeySize THEN ErrKeyTooLarge
    ELSE Nil

CheckSizes(key, value) ==
    IF StrLen(key) > MaxKeySize THEN ErrKeyTooLarge
    ELSE IF StrLen(value) > MaxValueSize THEN ErrValueTooLarge
    ELSE Nil

-----------------------------------------------------------------------------
(* The engine: an ordered map from keys to values with atomic batch writes *)

PutRec(kb, vb) == [type |-> "put", key |-> kb, value |-> vb]

DelRec(kb) == [type |-> "del", key |-> kb, value |-> NilBytes]

\* mutant: a put of a stored key keeps the stored value
ApplyRecFirstWins(d, r) ==
    LET k == AsString(r.key)
    IN  IF r.type = "put"
        THEN [x \in DOMAIN d \cup {k} |->
                 IF x = k /\ k \notin DOMAIN d THEN AsString(r.value) ELSE d[x]]
        ELSE [x \in DOMAIN d \ {k} |-> d[x]]

\* one record of a leveldb.Batch applied to the contents d
ApplyRec(d, r) ==
    LET k == AsString(r.key)
    IN  IF r.type = "put"
        THEN [x \in DOMAIN d \cup {k} |->
                 IF x = k THEN AsString(r.value) ELSE d[x]]
        ELSE [x \in DOMAIN d \ {k} |-> d[x]]

\* the records of a leveldb.Batch applied in the order they were appended
RECURSIVE ApplyBatch(_, _)
ApplyBatch(d, recs) ==
    IF recs = <<>> THEN d
    ELSE ApplyBatch(ApplyRec(d, Head(recs)), Tail(recs))

\* mutant: a write that stops after the first record of the batch
LdbWritePartial(d, recs, fault) ==
    IF fault THEN [db |-> d, err |-> LdbErrIO]
    ELSE [db |-> IF recs = <<>> THEN d ELSE ApplyRec(d, Head(recs)), err |-> Nil]

\* ldb.Write(batch): all records or, when the engine fails, none
LdbWrite(d, recs, fault) ==
    IF fault THEN [db |-> d, err |-> LdbErrIO]
    ELSE [db |-> ApplyBatch(d, recs), err |-> Nil]

\* ldb.Get(key): a copy of the stored value (never the nil slice), or
\* ErrNotFound, or another engine error
LdbGet(d, kb, fault) ==
    IF fault THEN [val |-> NilBytes, err |-> LdbErrIO]
    ELSE IF AsString(kb) \in DOMAIN d
    THEN [val |-> AsBytes(d[AsString(kb)]), err |-> Nil]
    ELSE [val |-> NilBytes, err |-> LdbErrNotFound]

-----------------------------------------------------------------------------
(* pstore: single-key operations, as functions of the engine contents *)

\* mutant: the nil value is passed on as a value (no val == nil test)
GetReplyNoNilCheck(r) ==
    IF r.err # Nil
    THEN IF r.err = LdbErrNotFound
         THEN [val |-> NilBytes, err |-> ErrKeyNotFound]
         ELSE [val |-> NilBytes, err |-> Wrap(r.err)]
    ELSE [val |-> r.val, err |-> Nil]

\* mutant: an empty value is taken for a missing one (len(val) == 0)
GetReplyEmptyIsMissing(r) ==
    IF r.err # Nil
    THEN IF r.err = LdbErrNotFound
         THEN [val |-> NilBytes, err |-> ErrKeyNotFound]
         ELSE [val |-> NilBytes, err |-> Wrap(r.err)]
    ELSE IF StrLen(r.val) = 0
    THEN [val |-> NilBytes, err |-> ErrKeyNotFound]
    ELSE [val |-> r.val, err |-> Nil]

\* the tail of pstore.Get, from the engine's reply (val, err)
GetReply(r) ==
    IF r.err # Nil
    THEN IF r.err = LdbErrNotFound
         THEN [val |-> NilBytes, err |-> ErrKeyNotFound]
         ELSE [val |-> NilBytes, err |-> Wrap(r.err)]
    ELSE IF r.val.nil
    THEN [val |-> NilBytes, err |-> ErrKeyNotFound]
    ELSE [val |-> r.val, err |-> Nil]

pstoreGet(d, key, fault) == GetReply(LdbGet(d, AsBytes(key), fault))

\* the result of a mutating call: new contents, returned error and the
\* records handed to the engine
Result(d, err, wrote) == [db |-> d, err |-> err, wrote |-> wrote]

WriteResult(d, recs, fault) ==
    LET w == LdbWrite(d, recs, fault)
    IN  Result(w.db, IF w.err # Nil THEN Wrap(w.err) ELSE Nil, recs)

pstorePut(d, key, value, fault) ==
    LET err == CheckSizes(key, value)
    IN  IF err # Nil THEN Result(d, err, <<>>)
        ELSE WriteResult(d, <<PutRec(AsBytes(key), value)>>, fault)

\* mutant: deleting an absent key is an error
pstoreDeleteMustExist(d, key, fault) ==
    IF ~fault /\ key \notin DOMAIN d THEN Result(d, ErrKeyNotFound, <<>>)
    ELSE WriteResult(d, <<DelRec(AsBytes(key))>>, fault)

pstoreDelete(d, key, fault) ==
    WriteResult(d, <<DelRec(AsBytes(key))>>, fault)

-----------------------------------------------------------------------------
(* pbatch: the accumulator, fields err and batch *)

NewBatch == [err |-> Nil, batch |-> <<>>]

\* mutant: a Put that fails validation is dropped without poisoning the batch
pbatchPutDropsInvalid(pb, key, value) ==
    IF pb.err # Nil \/ CheckSizes(key, value) # Nil THEN pb
    ELSE [pb EXCEPT !.batch = Append(@, PutRec(AsBytes(key), value))]

\* mutant: a Put goes to the front of the pending operations
pbatchPutPrepends(pb, key, value) ==
    IF pb.err # Nil THEN pb
    ELSE LET err == CheckSizes(key, value)
         IN  IF err # Nil THEN [pb EXCEPT !.err = err]
             ELSE [pb EXCEPT !.batch = <<PutRec(AsBytes(key), value)>> \o @]

pbatchPut(pb, key, value) ==
    IF pb.err # Nil THEN pb
    ELSE LET err == CheckSizes(key, value)
         IN  IF err # Nil THEN [pb EXCEPT !.err = err]
             ELSE [pb EXCEPT !.batch = Append(@, PutRec(AsBytes(key), value))]

\* mutant: Delete without the check of the stored error
pbatchDeleteUnguarded(pb, key) ==
    [pb EXCEPT !.batch = Append(@, DelRec(AsBytes(key)))]

pbatchDelete(pb, key) ==
    IF pb.err # Nil THEN pb
    ELSE [pb EXCEPT !.batch = Append(@, DelRec(AsBytes(key)))]

\* pstore.CommitBatch on contents d: isPbatch is the outcome of the type
\* assertion batch.(*pbatch), pb the asserted batch
pstoreCommitBatch(d, isPbatch, pb, fault) ==
    IF ~isPbatch THEN Result(d, ErrInvalidBatch, <<>>)
    ELSE IF pb.err # Nil THEN Result(d, pb.err, <<>>)
    ELSE WriteResult(d, pb.batch, fault)

-----------------------------------------------------------------------------
(* The engine's iterator and piter *)

\* ldb.NewIterator(&util.Range{Start, Limit}): a cursor over the contents at
\* the time of the call, placed before the first key; a nil bound is no bound
LdbNewIterator(d, start, limit) ==
    [snap |-> d, start |-> start, limit |-> limit, pos |-> "before",
     key |-> EmptyStr, released |-> FALSE, err |-> Nil]

\* the keys the cursor may still move to: within the range and, once it
\* stands on a key, greater than that key
Ahead(c) ==
    {k \in DOMAIN c.snap :
        /\ c.start.nil \/ Compare(k, c.start) >= 0
        /\ c.limit.nil \/ Compare(k, c.limit) < 0
        /\ c.pos = "before" \/ Compare(k, c.key) > 0}

\* it.Next(): moves to the smallest key ahead and reports whether there is
\* one.  False after an error; false with ErrIterReleased on a released
\* cursor, exhausted or not; false at the end of the range, where the cursor
\* keeps no current key; false with the engine's error when the read fails
\* (fault)
LdbIterNext(c, fault) ==
    IF c.err # Nil THEN [it |-> c, ok |-> FALSE]
    ELSE IF c.released
    THEN [it |-> [c EXCEPT !.err = LdbErrIterReleased], ok |-> FALSE]
    ELSE IF c.pos = "after" THEN [it |-> c, ok |-> FALSE]
    ELSE IF fault
    THEN [it |-> [c EXCEPT !.err = LdbErrIO, !.key = EmptyStr], ok |-> FALSE]
    ELSE LET A == Ahead(c)
         IN  IF A = {}
             THEN [it |-> [c EXCEPT !.pos = "after", !.key = EmptyStr],
                   ok |-> FALSE]
             ELSE LET k == CHOOSE x \in A : \A y \in A : Compare(x, y) <= 0
                  IN  [it |-> [c EXCEPT !.pos = "at", !.key = k], ok |-> TRUE]

\* mutant: an empty end is passed on as a (non-nil) limit
pstoreRangeScanEmptyLimit(d, start, end) ==
    [it |-> LdbNewIterator(d, IF start # EmptyStr THEN AsBytes(start) ELSE NilBytes,
                           AsBytes(end)),
     closed |-> FALSE]

pstoreRangeScan(d, start, end) ==
    [it |-> LdbNewIterator(d, IF start # EmptyStr THEN AsBytes(start) ELSE NilBytes,
                           IF end # EmptyStr THEN AsBytes(end) ELSE NilBytes),
     closed |-> FALSE]

\* the largest index of bytes whose byte is below 0xff, 0 when there is none
LastBelowMax(bytes) ==
    IF \E i \in DOMAIN bytes : bytes[i] < 255
    THEN CHOOSE i \in DOMAIN bytes :
             bytes[i] < 255 /\ \A j \in DOMAIN bytes : j > i => bytes[j] = 255
    ELSE 0

\* util.BytesPrefix(prefix): the range from prefix up to the prefix cut
\* after its last byte below 0xff with that byte incremented; no limit when
\* there is no such byte.  The prefixes of the model carry no filler.
BytesPrefix(prefix) ==
    LET i == LastBelowMax(prefix.pre)
    IN  [start |-> prefix,
         limit |-> IF i = 0 THEN NilBytes
                   ELSE [nil |-> FALSE,
                         pre |-> [j \in 1..i |->
                                     IF j = i THEN prefix.pre[j] + 1
                                     ELSE prefix.pre[j]],
                         pad |-> 0]]

\* mutant: the limit is the prefix with its last byte incremented as a byte
\* (0xff wraps to 0x00)
pstorePrefixScanNaive(d, prefix) ==
    LET n == Len(prefix.pre)
    IN  [it |-> LdbNewIterator(d, AsBytes(prefix),
                   IF n = 0 THEN NilBytes
                   ELSE [nil |-> FALSE,
                         pre |-> [j \in 1..n |->
                                     IF j = n THEN (prefix.pre[j] + 1) % 256
                                     ELSE prefix.pre[j]],
                         pad |-> 0]),
         closed |-> FALSE]

pstorePrefixScan(d, prefix) ==
    LET r == BytesPrefix(AsBytes(prefix))
    IN  [it |-> LdbNewIterator(d, r.start, r.limit), closed |-> FALSE]

\* mutant: Next without the test of closed
piterNextUnchecked(pi, fault) ==
    LET r == LdbIterNext(pi.it, fault)
    IN  [pi |-> [pi EXCEPT !.it = r.it], ok |-> r.ok, panic |-> FALSE]

\* piter.Next: panics on a closed iterator, else advances the cursor
piterNext(pi, fault) ==
    IF pi.closed THEN [pi |-> pi, ok |-> FALSE, panic |-> TRUE]
    ELSE LET r == LdbIterNext(pi.it, fault)
         IN  [pi |-> [pi EXCEPT !.it = r.it], ok |-> r.ok, panic |-> FALSE]

\* it.Release(): the cursor gives up its key and its hold on the contents;
\* a second Release does nothing
LdbIterRelease(c) ==
    IF c.released THEN c ELSE [c EXCEPT !.released = TRUE, !.key = EmptyStr]

\* it.Error(): the error accumulated by the traversal
LdbIterError(c) == c.err

\* mutant: Close of a closed iterator panics
piterClosePanicsTwice(pi) ==
    LET it == LdbIterRelease(pi.it)
    IN  [pi |-> [it |-> it, closed |-> TRUE],
         err |-> IF LdbIterError(it) # Nil THEN Wrap(LdbIterError(it)) ELSE Nil,
         panic |-> pi.closed]

\* piter.Close: marks the iterator closed, releases the cursor and returns
\* the cursor's error, wrapped
piterClose(pi) ==
    LET it == LdbIterRelease(pi.it)
    IN  [pi |-> [it |-> it, closed |-> TRUE],
         err |-> IF LdbIterError(it) # Nil THEN Wrap(LdbIterError(it)) ELSE Nil,
         panic |-> FALSE]

\* piter.Key: string(pi.it.Key())
piterKey(pi) == pi.it.key

-----------------------------------------------------------------------------
(* Inputs *)

Stores == {"s1", "s2"}

\* a key of exactly MaxKeySize bytes: "a" and filler
KeyMax == Str(<<97>>, MaxKeySize - 1)

\* a key one byte longer than MaxKeySize
KeyBig == Str(<<97>>, MaxKeySize)

Keys == {EmptyStr, KeyMax, KeyBig}

\* a value of exactly MaxValueSize bytes
ValMax == AsBytes(Str(<<49>>, MaxValueSize - 1))

\* a value one byte longer than MaxValueSize
ValBig == AsBytes(Str(<<49>>, MaxValueSize))

\* the empty (non-nil) value and the two values around the limit
ValEmpty == AsBytes(EmptyStr)

Values == {ValEmpty, ValMax, ValBig}

\* a BatchMutation whose concrete type is not *pbatch
Foreign == 0

-----------------------------------------------------------------------------
(* The state machine *)

EmptyDb == [x \in {} |-> EmptyStr]

\* the record of one call: fault tells whether the engine failed in it, had
\* whether the key was stored in the store when the call was made
Call(op, s, b, key, value, fault, err, val, wrote) ==
    [op |-> op, store |-> s, batch |-> b, key |-> key, value |-> value,
     fault |-> fault, had |-> key \in DOMAIN db[s],
     err |-> err, val |-> val, wrote |-> wrote]

NoCall ==
    [op |-> "none", store |-> "s1", batch |-> Foreign, key |-> EmptyStr,
     value |-> NilBytes, fault |-> FALSE, had |-> FALSE, err |-> Nil,
     val |-> NilBytes, wrote |-> <<>>]

\* the goroutines that call into one batch at the same time
Threads == 1..MaxThreads

\* the zero value of sync.Mutex: unlocked
Unlocked == 0

threads == <<pc, job, mu, order, ret>>

NoJob == [op |-> "none", key |-> EmptyStr, value |-> NilBytes]

NoRet == [fault |-> FALSE, err |-> Nil, val |-> NilBytes, wrote |-> <<>>]

\* no goroutine has called anything
Idle ==
    /\ pc = [t \in Threads |-> "idle"]
    /\ job = [t \in Threads |-> NoJob]
    /\ mu = Unlocked
    /\ order = <<>>
    /\ ret = [t \in Threads |-> NoRet]

\* the state after NewPersistantStore on an empty path, for each store
Init ==
    /\ db = [s \in Stores |-> EmptyDb]
    /\ batches = <<>>
    /\ iters = <<>>
    /\ origin = <<>>
    /\ added = <<>>
    /\ committed = {}
    /\ scans = <<>>
    /\ last = NoCall
    /\ calls = 0
    /\ Idle

\* every call counts and is recorded
Step(c) ==
    /\ calls' = calls + 1
    /\ last' = c

Get(s, key, fault) ==
    /\ calls < MaxCalls
    /\ LET r == pstoreGet(db[s], key, fault)
       IN  Step(Call("Get", s, Foreign, key, NilBytes, fault, r.err, r.val, <<>>))
    /\ UNCHANGED <<threads, db, batches, iters, origin, added, committed, scans>>

Put(s, key, value, fault) ==
    /\ calls < MaxCalls
    /\ LET r == pstorePut(db[s], key, value, fault)
       IN  /\ db' = [db EXCEPT ![s] = r.db]
           /\ Step(Call("Put", s, Foreign, key, value, fault, r.err, NilBytes,
                        r.wrote))
    /\ UNCHANGED <<threads, batches, iters, origin, added, committed, scans>>

Delete(s, key, fault) ==
    /\ calls < MaxCalls
    /\ LET r == pstoreDelete(db[s], key, fault)
       IN  /\ db' = [db EXCEPT ![s] = r.db]
           /\ Step(Call("Delete", s, Foreign, key, NilBytes, fault, r.err, NilBytes,
                        r.wrote))
    /\ UNCHANGED <<threads, batches, iters, origin, added, committed, scans>>

BeginBatch(s) ==
    /\ calls < MaxCalls
    /\ Len(batches) < MaxBatches
    /\ batches' = Append(batches, NewBatch)
    /\ origin' = Append(origin, s)
    /\ added' = Append(added, <<>>)
    /\ Step(Call("BeginBatch", s, Len(batches) + 1, EmptyStr, NilBytes, FALSE, Nil,
                 NilBytes, <<>>))
    /\ UNCHANGED <<threads, db, iters, committed, scans>>

\* mutant: a valid Put on a batch is also written to the batch's store
BatchPutWriteThrough(b, key, value) ==
    /\ calls < MaxCalls
    /\ b \in DOMAIN batches
    /\ Len(added[b]) < MaxOps
    /\ batches' = [batches EXCEPT ![b] = pbatchPut(@, key, value)]
    /\ added' = [added EXCEPT ![b] = Append(@, PutRec(AsBytes(key), value))]
    /\ db' = [db EXCEPT ![origin[b]] = pstorePut(@, key, value, FALSE).db]
    /\ Step(Call("BatchPut", origin[b], b, key, value, FALSE, Nil, NilBytes, <<>>))
    /\ UNCHANGED <<threads, iters, origin, committed, scans>>

BatchPut(b, key, value) ==
    /\ calls < MaxCalls
    /\ b \in DOMAIN batches
    /\ Len(added[b]) < MaxOps
    /\ batches' = [batches EXCEPT ![b] = pbatchPut(@, key, value)]
    /\ added' = [added EXCEPT ![b] = Append(@, PutRec(AsBytes(key), value))]
    /\ Step(Call("BatchPut", origin[b], b, key, value, FALSE, Nil, NilBytes, <<>>))
    /\ UNCHANGED <<threads, db, iters, origin, committed, scans>>

BatchDelete(b, key) ==
    /\ calls < MaxCalls
    /\ b \in DOMAIN batches
    /\ Len(added[b]) < MaxOps
    /\ batches' = [batches EXCEPT ![b] = pbatchDelete(@, key)]
    /\ added' = [added EXCEPT ![b] = Append(@, DelRec(AsBytes(key)))]
    /\ Step(Call("BatchDelete", origin[b], b, key, NilBytes, FALSE, Nil, NilBytes,
                 <<>>))
    /\ UNCHANGED <<threads, db, iters, origin, committed, scans>>

CommitBatch(s, b, fault) ==
    /\ calls < MaxCalls
    /\ b \in DOMAIN batches \cup {Foreign}
    /\ LET r == pstoreCommitBatch(db[s], b # Foreign,
                                  IF b # Foreign THEN batches[b] ELSE NewBatch,
                                  fault)
       IN  /\ db' = [db EXCEPT ![s] = r.db]
           /\ committed' = IF b # Foreign /\ r.err = Nil
                           THEN committed \cup {b} ELSE committed
           /\ Step(Call("CommitBatch", s, b, EmptyStr, NilBytes, fault, r.err,
                        NilBytes, r.wrote))
    /\ UNCHANGED <<threads, batches, iters, origin, added, scans>>

Next ==
    \/ \E s \in Stores, k \in Keys, f \in BOOLEAN : Get(s, k, f)
    \/ \E s \in Stores, k \in Keys, v \in Values, f \in BOOLEAN : Put(s, k, v, f)
    \/ \E s \in Stores, k \in Keys, f \in BOOLEAN : Delete(s, k, f)
    \/ \E s \in Stores : BeginBatch(s)
    \/ \E b \in DOMAIN batches, k \in Keys, v \in Values : BatchPut(b, k, v)
    \/ \E b \in DOMAIN batches, k \in Keys : BatchDelete(b, k)
    \/ \E s \in Stores, b \in DOMAIN batches \cup {Foreign}, f \in BOOLEAN :
           CommitBatch(s, b, f)

Spec == Init /\ [][Next]_vars

-----------------------------------------------------------------------------
(* Reading: Get on an engine whose reply is an input, and range scans over  *)
(* stored contents drawn from ScanKeys                                       *)

\* the replies (val, err) an engine may give to ldb.Get
Replies ==
    [val : {NilBytes, ValEmpty, ValMax},
     err : {Nil, LdbErrNotFound, LdbErrIO, "leveldb: corruption"}]

\* pstore.Get when the engine answers `reply`
GetWith(s, key, reply) ==
    /\ calls < MaxCalls
    /\ calls' = calls + 1
    /\ LET r == GetReply(reply)
       IN  last' = [op |-> "Get", store |-> s, key |-> key, reply |-> reply,
                    err |-> r.err, val |-> r.val]
    /\ UNCHANGED <<threads, db, batches, iters, origin, added, committed, scans>>

NextGet == \E s \in Stores, k \in Keys, r \in Replies : GetWith(s, k, r)

SpecGet == Init /\ [][NextGet]_vars

\* "", "a", "a" and filler up to MaxKeySize bytes, "b", "c", "d"
ScanKeys ==
    {EmptyStr, Str(<<97>>, 0), KeyMax, Str(<<98>>, 0), Str(<<99>>, 0),
     Str(<<100>>, 0)}

\* the bounds handed to RangeScan: "" (none), "b" and "d"
ScanBounds == {EmptyStr, Str(<<98>>, 0), Str(<<100>>, 0)}

\* store s1 holds any set of the scan keys, left there by earlier Puts
InitScan ==
    /\ \E S \in SUBSET ScanKeys :
           db = [s \in Stores |->
                    IF s = "s1" THEN [k \in S |-> AsString(ValEmpty)] ELSE EmptyDb]
    /\ batches = <<>>
    /\ iters = <<>>
    /\ origin = <<>>
    /\ added = <<>>
    /\ committed = {}
    /\ scans = <<>>
    /\ last = NoCall
    /\ calls = 0
    /\ Idle

RangeScan(s, start, end) ==
    /\ Len(iters) < MaxIters
    /\ iters' = Append(iters, pstoreRangeScan(db[s], start, end))
    /\ scans' = Append(scans, [start |-> start, end |-> end,
                               stored |-> DOMAIN db[s], out |-> <<>>,
                               over |-> FALSE])
    /\ UNCHANGED <<threads, db, batches, origin, added, committed, last, calls>>

\* Next on iterator i, followed by Key when it reports an element
IterNext(i) ==
    /\ i \in DOMAIN iters
    /\ LET r == piterNext(iters[i], FALSE)
       IN  /\ ~r.panic
           /\ iters' = [iters EXCEPT ![i] = r.pi]
           /\ scans' = [scans EXCEPT
                          ![i].out = IF r.ok THEN Append(@, piterKey(r.pi)) ELSE @,
                          ![i].over = ~r.ok]
    /\ UNCHANGED <<threads, db, batches, origin, added, committed, last, calls>>

NextScan ==
    \/ \E s \in Stores, start \in ScanBounds, end \in ScanBounds :
           RangeScan(s, start, end)
    \/ \E i \in DOMAIN iters : IterNext(i)

SpecScan == InitScan /\ [][NextScan]_vars

\* "", "a", "a" and filler up to MaxKeySize bytes, "a\xff", "b", "\xff",
\* "\xff\xff"
PrefixKeys ==
    {EmptyStr, Str(<<97>>, 0), KeyMax, Str(<<97, 255>>, 0), Str(<<98>>, 0),
     Str(<<255>>, 0), Str(<<255, 255>>, 0)}

\* the prefixes handed to PrefixScan: "", "a", "a\xff", "b", "\xff", "\xff\xff"
Prefixes ==
    {EmptyStr, Str(<<97>>, 0), Str(<<97, 255>>, 0), Str(<<98>>, 0),
     Str(<<255>>, 0), Str(<<255, 255>>, 0)}

\* store s1 holds any set of the prefix keys, left there by earlier Puts
InitPrefix ==
    /\ \E S \in SUBSET PrefixKeys :
           db = [s \in Stores |->
                    IF s = "s1" THEN [k \in S |-> AsString(ValEmpty)] ELSE EmptyDb]
    /\ batches = <<>>
    /\ iters = <<>>
    /\ origin = <<>>
    /\ added = <<>>
    /\ committed = {}
    /\ scans = <<>>
    /\ last = NoCall
    /\ calls = 0
    /\ Idle

PrefixScan(s, prefix) ==
    /\ Len(iters) < MaxIters
    /\ iters' = Append(iters, pstorePrefixScan(db[s], prefix))
    /\ scans' = Append(scans, [prefix |-> prefix, snap |-> db[s],
                               stored |-> DOMAIN db[s], out |-> <<>>,
                               over |-> FALSE])
    /\ UNCHANGED <<threads, db, batches, origin, added, committed, last, calls>>

NextPrefix ==
    \/ \E s \in Stores, p \in Prefixes : PrefixScan(s, p)
    \/ \E i \in DOMAIN iters : IterNext(i)

SpecPrefix == InitPrefix /\ [][NextPrefix]_vars

-----------------------------------------------------------------------------
(* The life of an iterator: Next, with or without an engine failure, and
   Close, in any order and any number of times. *)

\* "a", "b"
IterKeys == {Str(<<97>>, 0), Str(<<98>>, 0)}

\* "", "b"
IterBounds == {EmptyStr, Str(<<98>>, 0)}

\* store s1 holds any set of the iterator keys, left there by earlier Puts
InitIter ==
    /\ \E S \in SUBSET IterKeys :
           db = [s \in Stores |->
                    IF s = "s1" THEN [k \in S |-> AsString(ValEmpty)] ELSE EmptyDb]
    /\ batches = <<>>
    /\ iters = <<>>
    /\ origin = <<>>
    /\ added = <<>>
    /\ committed = {}
    /\ scans = <<>>
    /\ last = NoCall
    /\ calls = 0
    /\ Idle

\* the record of a call on iterator i: was tells whether the iterator was
\* closed when the call was made
IterCall(op, i, r) ==
    [op |-> op, iter |-> i, was |-> iters[i].closed, ok |-> r.ok, err |-> r.err,
     panic |-> r.panic]

\* a call of Next on iterator i, followed by Key when it reports an element;
\* a panic is recovered by the caller
NextCall(i, fault) ==
    /\ calls < MaxCalls
    /\ i \in DOMAIN iters
    /\ LET r == piterNext(iters[i], fault)
       IN  /\ iters' = [iters EXCEPT ![i] = r.pi]
           /\ scans' = IF r.panic THEN scans
                       ELSE [scans EXCEPT
                               ![i].out = IF r.ok THEN Append(@, piterKey(r.pi))
                                          ELSE @,
                               ![i].over = ~r.ok]
           /\ Step(IterCall("Next", i, [ok |-> r.ok, err |-> Nil, panic |-> r.panic]))
    /\ UNCHANGED <<threads, db, batches, origin, added, committed>>

\* a call of Close on iterator i
CloseCall(i) ==
    /\ calls < MaxCalls
    /\ i \in DOMAIN iters
    /\ LET r == piterClose(iters[i])
       IN  /\ iters' = [iters EXCEPT ![i] = r.pi]
           /\ Step(IterCall("Close", i, [ok |-> FALSE, err |-> r.err,
                                         panic |-> r.panic]))
    /\ UNCHANGED <<threads, db, batches, origin, added, committed, scans>>

NextIter ==
    \/ \E start \in IterBounds, end \in IterBounds : RangeScan("s1", start, end)
    \/ \E i \in DOMAIN iters, f \in BOOLEAN : NextCall(i, f)
    \/ \E i \in DOMAIN iters : CloseCall(i)

SpecIter == InitIter /\ [][NextIter]_vars

-----------------------------------------------------------------------------
(* Goroutines calling Put, Delete and CommitBatch on one batch of store s1,
   and Get on the store, at the same time.  A call is a sequence of steps:
   the acquisition of the batch's errmu, the test of the stored error, the
   validation and the update or the engine write, the release of errmu. *)

\* the calls of the goroutines: a Put that passes validation, a Put that
\* fails it, a Delete, a CommitBatch and a Get
Jobs ==
    {[op |-> "Put", key |-> KeyMax, value |-> ValMax],
     [op |-> "Put", key |-> KeyBig, value |-> ValMax],
     [op |-> "Delete", key |-> KeyMax, value |-> NilBytes],
     [op |-> "Commit", key |-> EmptyStr, value |-> NilBytes],
     [op |-> "Get", key |-> KeyMax, value |-> NilBytes]}

\* the contents of s1 when the goroutines start: the key of the jobs with the
\* empty value, left there by an earlier Put
Contents0 == [k \in {KeyMax} |-> AsString(ValEmpty)]

\* the batch when the goroutines start: begun, and one Put made on it
Batch0 == pbatchPut(NewBatch, KeyMax, ValMax)

InitConc ==
    /\ db = [s \in Stores |-> IF s = "s1" THEN Contents0 ELSE EmptyDb]
    /\ batches = <<Batch0>>
    /\ iters = <<>>
    /\ origin = <<"s1">>
    /\ added = << <<PutRec(AsBytes(KeyMax), ValMax)>> >>
    /\ committed = {}
    /\ scans = <<>>
    /\ last = NoCall
    /\ calls = 0
    /\ Idle

\* mutant: Lock never waits
MutexFreeAlways(m) == TRUE

\* errmu.Lock() returns when no goroutine holds the mutex
MutexFree(m) == m = Unlocked

\* goroutine t calls Put, Delete or CommitBatch; the goroutines are numbered
\* in the order of their calls
Invoke(t, j) ==
    /\ pc[t] = "idle"
    /\ \A u \in Threads : u < t => pc[u] # "idle"
    /\ j.op # "Get"
    /\ job' = [job EXCEPT ![t] = j]
    /\ pc' = [pc EXCEPT ![t] = "lock"]
    /\ UNCHANGED <<db, batches, iters, origin, added, committed, scans, last,
                   calls, mu, order, ret>>

\* pb.errmu.Lock()
Lock(t) ==
    /\ pc[t] = "lock"
    /\ MutexFree(mu)
    /\ mu' = t
    /\ order' = Append(order, t)
    /\ pc' = [pc EXCEPT ![t] = "guard"]
    /\ UNCHANGED <<db, batches, iters, origin, added, committed, scans, last,
                   calls, job, ret>>

\* if pb.err != nil { return }, in CommitBatch return b.err
Guard(t) ==
    /\ pc[t] = "guard"
    /\ IF batches[1].err # Nil
       THEN /\ pc' = [pc EXCEPT ![t] = "unlock"]
            /\ ret' = [ret EXCEPT ![t] =
                          [@ EXCEPT !.err = IF job[t].op = "Commit"
                                            THEN batches[1].err ELSE Nil]]
       ELSE /\ pc' = [pc EXCEPT ![t] = "apply"]
            /\ ret' = ret
    /\ UNCHANGED <<db, batches, iters, origin, added, committed, scans, last,
                   calls, job, mu, order>>

\* the rest of the call's body: CheckSizes and pb.err = err or
\* pb.batch.Put, pb.batch.Delete, ps.ldb.Write(b.batch, nil)
Apply(t, fault) ==
    /\ pc[t] = "apply"
    /\ fault => job[t].op = "Commit"
    /\ pc' = [pc EXCEPT ![t] = "unlock"]
    /\ IF job[t].op = "Put"
       THEN LET err == CheckSizes(job[t].key, job[t].value)
            IN  /\ batches' =
                       [batches EXCEPT ![1] =
                           IF err # Nil THEN [@ EXCEPT !.err = err]
                           ELSE [@ EXCEPT !.batch =
                                    Append(@, PutRec(AsBytes(job[t].key),
                                                     job[t].value))]]
                /\ UNCHANGED <<db, ret, committed>>
       ELSE IF job[t].op = "Delete"
       THEN /\ batches' =
                   [batches EXCEPT ![1] =
                       [@ EXCEPT !.batch = Append(@, DelRec(AsBytes(job[t].key)))]]
            /\ UNCHANGED <<db, ret, committed>>
       ELSE LET r == WriteResult(db["s1"], batches[1].batch, fault)
            IN  /\ db' = [db EXCEPT !["s1"] = r.db]
                /\ ret' = [ret EXCEPT ![t] =
                              [fault |-> fault, err |-> r.err, val |-> NilBytes,
                               wrote |-> r.wrote]]
                /\ committed' = IF r.err = Nil THEN committed \cup {1}
                                ELSE committed
                /\ UNCHANGED batches
    /\ UNCHANGED <<iters, origin, added, scans, last, calls, job, mu, order>>

\* pb.errmu.Unlock(), deferred or explicit, and the return
Unlock(t) ==
    /\ pc[t] = "unlock"
    /\ mu' = Unlocked
    /\ pc' = [pc EXCEPT ![t] = "done"]
    /\ UNCHANGED <<db, batches, iters, origin, added, committed, scans, last,
                   calls, job, order, ret>>

\* goroutine t calls pstore.Get, which takes no lock and reads the engine once
Read(t, j) ==
    /\ pc[t] = "idle"
    /\ \A u \in Threads : u < t => pc[u] # "idle"
    /\ j.op = "Get"
    /\ job' = [job EXCEPT ![t] = j]
    /\ LET r == pstoreGet(db["s1"], j.key, FALSE)
       IN  ret' = [ret EXCEPT ![t] = [fault |-> FALSE, err |-> r.err,
                                      val |-> r.val, wrote |-> <<>>]]
    /\ pc' = [pc EXCEPT ![t] = "done"]
    /\ UNCHANGED <<db, batches, iters, origin, added, committed, scans, last,
                   calls, mu, order>>

NextConc ==
    \/ \E t \in Threads, j \in Jobs : Invoke(t, j)
    \/ \E t \in Threads : Lock(t)
    \/ \E t \in Threads : Guard(t)
    \/ \E t \in Threads, f \in BOOLEAN : Apply(t, f)
    \/ \E t \in Threads : Unlock(t)
    \/ \E t \in Threads, j \in Jobs : Read(t, j)

SpecConc == InitConc /\ [][NextConc]_vars

-----------------------------------------------------------------------------
(* Properties of the store.  The limits are written out here, so that the   *)
(* properties do not follow the model's CheckSizes.                          *)

KeyOver(x) == StrLen(x) > 16384

ValueOver(x) == StrLen(x) > 65536

\* a Put whose arguments break a size limit
Oversized(r) == r.type = "put" /\ (KeyOver(r.key) \/ ValueOver(r.value))

\* the first oversized call of a batch's call list, 0 when there is none
FirstBad(recs) ==
    IF \E i \in DOMAIN recs : Oversized(recs[i])
    THEN CHOOSE i \in DOMAIN recs :
             Oversized(recs[i]) /\ \A j \in 1..(i - 1) : ~Oversized(recs[j])
    ELSE 0

\* the step is a call of op
CallStep(op) == calls' = calls + 1 /\ last'.op = op

\* the step is a CommitBatch of batch b
CommitStep(b) == CallStep("CommitBatch") /\ last'.batch = b

\* C1: when a Put added to a batch broke a size limit, CommitBatch of that
\* batch returns the error of the first such Put and leaves every store's
\* contents as they were, valid operations added earlier included.
C1_BatchAtomicity ==
    [][\A b \in DOMAIN batches :
          (CommitStep(b) /\ FirstBad(added[b]) # 0) =>
              /\ last'.err = (IF KeyOver(added[b][FirstBad(added[b])].key)
                              THEN ErrKeyTooLarge ELSE ErrValueTooLarge)
              /\ db' = db]_vars

\* a batch with a valid Put followed by an oversized-key Put was committed
\* and the valid key is not in the store
C1_Witness ==
    \E b \in DOMAIN batches :
        /\ last.op = "CommitBatch" /\ last.batch = b
        /\ Len(added[b]) = 2 /\ FirstBad(added[b]) = 2
        /\ added[b][1].type = "put" /\ KeyOver(added[b][2].key)
        /\ last.err = ErrKeyTooLarge
        /\ AsString(added[b][1].key) \notin DOMAIN db[last.store]

\* C2: no record handed to the engine by any call has a key longer than
\* 16384 bytes or a value longer than 65536 bytes.
C2_SizesCheckedBeforeEngine ==
    \A i \in DOMAIN last.wrote :
        ~KeyOver(last.wrote[i].key) /\ ~ValueOver(last.wrote[i].value)

\* C3: CommitBatch of a batch holding operations, on a store other than the
\* one whose BeginBatch returned the batch, returns an error and leaves the
\* stores' contents unchanged.
C3_BatchOwnership ==
    [][\A b \in DOMAIN batches :
          (CommitStep(b) /\ origin[b] # last'.store /\ batches[b].batch # <<>>) =>
              (last'.err # Nil /\ db' = db)]_vars

\* C4: once a CommitBatch of a batch has applied it, no later CommitBatch of
\* that batch hands the batch's operations to the engine again.
C4_BatchSingleUse ==
    [][\A b \in committed : CommitStep(b) => last'.wrote = <<>>]_vars

\* C5: a batch whose stored error is set is left as it is by every step (its
\* operation list and its error), and a CommitBatch of it returns the stored
\* error, hands nothing to the engine and changes no store.
C5_PoisonShortCircuit ==
    [][\A b \in DOMAIN batches :
          batches[b].err # Nil =>
              /\ batches'[b] = batches[b]
              /\ CommitStep(b) =>
                     (last'.err = batches[b].err /\ last'.wrote = <<>> /\ db' = db)]_vars

\* a poisoned batch took a further call after the failing Put and was
\* then committed
C5_Witness ==
    \E b \in DOMAIN batches :
        /\ last.op = "CommitBatch" /\ last.batch = b
        /\ batches[b].err # Nil
        /\ FirstBad(added[b]) = 1 /\ Len(added[b]) = 2
        /\ last.err = batches[b].err

\* C6 as stated: Put returns KeyTooLarge for a key over 16384 bytes and
\* ValueTooLarge for a value over 65536 bytes, changes and writes nothing in
\* both cases, and accepts and writes a key and a value of exactly the limits.
C6_AsStated ==
    [][CallStep("Put") =>
          /\ KeyOver(last'.key) => last'.err = ErrKeyTooLarge
          /\ ValueOver(last'.value) => last'.err = ErrValueTooLarge
          /\ (KeyOver(last'.key) \/ ValueOver(last'.value)) =>
                 (db' = db /\ last'.wrote = <<>>)
          /\ (StrLen(last'.key) = 16384 /\ StrLen(last'.value) = 65536
              /\ ~last'.fault) =>
                 /\ last'.err = Nil
                 /\ last'.wrote = <<PutRec(AsBytes(last'.key), last'.value)>>
                 /\ last'.key \in DOMAIN db'[last'.store]
                 /\ db'[last'.store][last'.key] = AsString(last'.value)]_vars

\* C6 amended: as stated, but ValueTooLarge is the result for a value over
\* 65536 bytes only when the key is within its limit (KeyTooLarge comes first).
C6_PutSizeEnforcement ==
    [][CallStep("Put") =>
          /\ KeyOver(last'.key) => last'.err = ErrKeyTooLarge
          /\ (~KeyOver(last'.key) /\ ValueOver(last'.value)) =>
                 last'.err = ErrValueTooLarge
          /\ (KeyOver(last'.key) \/ ValueOver(last'.value)) =>
                 (db' = db /\ last'.wrote = <<>>)
          /\ (StrLen(last'.key) = 16384 /\ StrLen(last'.value) = 65536
              /\ ~last'.fault) =>
                 /\ last'.err = Nil
                 /\ last'.wrote = <<PutRec(AsBytes(last'.key), last'.value)>>
                 /\ last'.key \in DOMAIN db'[last'.store]
                 /\ db'[last'.store][last'.key] = AsString(last'.value)]_vars

\* a key of exactly 16384 bytes was Put with a value of exactly 65536 bytes
\* and is stored
C6_Witness ==
    /\ last.op = "Put" /\ last.err = Nil
    /\ StrLen(last.key) = 16384 /\ StrLen(last.value) = 65536
    /\ last.key \in DOMAIN db[last.store]
    /\ db[last.store][last.key] = AsString(last.value)

\* C7: a Get that directly follows a successful Put of the same key on the
\* same store returns, when the engine does not fail, no error and the bytes
\* that were put.
C7_RoundTrip ==
    [][(/\ last.op = "Put" /\ last.err = Nil
        /\ CallStep("Get")
        /\ last'.store = last.store /\ last'.key = last.key
        /\ ~last'.fault) =>
          /\ last'.err = Nil
          /\ ~last'.val.nil
          /\ AsString(last'.val) = AsString(last.value)]_vars

\* the empty value was read back under the empty key
C7_Witness ==
    /\ last.op = "Get" /\ last.err = Nil
    /\ last.key = EmptyStr /\ last.val = ValEmpty

\* C8: Get returns ErrKeyNotFound when the engine reports the key absent and
\* when it returns the nil value without an error; any other engine error
\* comes back wrapped, and is not ErrKeyNotFound; a value is returned only
\* with a nil error, and it is the engine's value.
C8_GetNotFoundDistinct ==
    last.op = "Get" =>
        /\ last.reply.err = LdbErrNotFound => last.err = ErrKeyNotFound
        /\ (last.reply.err = Nil /\ last.reply.val.nil) => last.err = ErrKeyNotFound
        /\ last.reply.err \notin {Nil, LdbErrNotFound} =>
               (last.err # ErrKeyNotFound /\ last.err = Wrap(last.reply.err))
        /\ last.err # Nil => last.val = NilBytes
        /\ (last.reply.err = Nil /\ ~last.reply.val.nil) =>
               (last.err = Nil /\ last.val = last.reply.val)

\* the engine returned the nil value with no error and Get said NotFound
C8_Witness ==
    /\ last.op = "Get"
    /\ last.reply = [val |-> NilBytes, err |-> Nil]
    /\ last.err = ErrKeyNotFound

\* the step stores key k in store s by a Put or by a committed batch
PutsKey(s, k) ==
    \/ CallStep("Put") /\ last'.store = s /\ last'.key = k
    \/ /\ CallStep("CommitBatch") /\ last'.store = s
       /\ \E i \in DOMAIN last'.wrote :
              last'.wrote[i].type = "put" /\ AsString(last'.wrote[i].key) = k

\* C9: a successful Delete leaves the key absent; an absent key stays absent
\* (Get: NotFound) until a step puts it; Delete of an absent key returns no
\* error, when the engine does not fail, and changes nothing.
C9_Deletion ==
    [][\A s \in Stores, k \in Keys :
          LET del == CallStep("Delete") /\ last'.store = s /\ last'.key = k
              get == CallStep("Get") /\ last'.store = s /\ last'.key = k
          IN  /\ (del /\ last'.err = Nil) => k \notin DOMAIN db'[s]
              /\ (del /\ k \notin DOMAIN db[s] /\ ~last'.fault) =>
                     (last'.err = Nil /\ db' = db)
              /\ (get /\ k \notin DOMAIN db[s] /\ ~last'.fault) =>
                     last'.err = ErrKeyNotFound
              /\ (k \notin DOMAIN db[s] /\ k \in DOMAIN db'[s]) => PutsKey(s, k)]_vars

\* a stored key was deleted and is absent
C9_Witness ==
    /\ last.op = "Delete" /\ last.err = Nil /\ last.had
    /\ last.key \notin DOMAIN db[last.store]

\* the scan keys in ascending byte order, written out
ScanOrder ==
    <<EmptyStr, Str(<<97>>, 0), KeyMax, Str(<<98>>, 0), Str(<<99>>, 0),
      Str(<<100>>, 0)>>

Rank(k) == CHOOSE i \in DOMAIN ScanOrder : ScanOrder[i] = k

\* the keys RangeScan(h.start, h.end) is to yield: start <= k < end, an
\* empty bound being no bound
Wanted(h) ==
    {k \in h.stored :
        /\ h.start = EmptyStr \/ Rank(h.start) <= Rank(k)
        /\ h.end = EmptyStr \/ Rank(k) < Rank(h.end)}

\* C10: the keys an iterator of RangeScan(start, end) has yielded are, in
\* ascending byte order with none skipped and none repeated, stored keys k
\* with start <= k < end (an empty bound is no bound), and all of them once
\* Next has returned false.
C10_RangeScan ==
    \A i \in DOMAIN scans :
        LET h == scans[i]
        IN  /\ \A j \in DOMAIN h.out : h.out[j] \in Wanted(h)
            /\ \A j \in DOMAIN h.out :
                   {k \in Wanted(h) : Rank(k) < Rank(h.out[j])}
                       = {h.out[n] : n \in 1..(j - 1)}
            /\ \A j, n \in DOMAIN h.out : j < n => Rank(h.out[j]) < Rank(h.out[n])
            /\ h.over => {h.out[j] : j \in DOMAIN h.out} = Wanted(h)

\* with a, b, c and d stored, RangeScan("b", "d") has yielded b then c and
\* Next has returned false
C10_Witness ==
    \E i \in DOMAIN scans :
        /\ scans[i].stored =
               {Str(<<97>>, 0), Str(<<98>>, 0), Str(<<99>>, 0), Str(<<100>>, 0)}
        /\ scans[i].start = Str(<<98>>, 0) /\ scans[i].end = Str(<<100>>, 0)
        /\ scans[i].out = <<Str(<<98>>, 0), Str(<<99>>, 0)>>
        /\ scans[i].over

\* the prefix keys in ascending byte order, written out
PrefixOrder ==
    <<EmptyStr, Str(<<97>>, 0), KeyMax, Str(<<97, 255>>, 0), Str(<<98>>, 0),
      Str(<<255>>, 0), Str(<<255, 255>>, 0)>>

PrefixRank(k) == CHOOSE i \in DOMAIN PrefixOrder : PrefixOrder[i] = k

\* key k begins with the bytes of p
HasPrefix(k, p) ==
    /\ StrLen(p) <= StrLen(k)
    /\ \A i \in 1..StrLen(p) : ByteAt(k, i) = ByteAt(p, i)

\* p with its last byte incremented, as a byte (0xff + 1 is 0x00); "" for ""
IncLast(p) ==
    LET n == Len(p.pre)
    IN  IF n = 0 THEN p
        ELSE Str([j \in 1..n |-> IF j = n THEN (p.pre[j] + 1) % 256 ELSE p.pre[j]],
                 0)

\* the keys an iterator yields when Next is called until it returns false
RECURSIVE Drain(_)
Drain(pi) ==
    LET r == piterNext(pi, FALSE)
    IN  IF r.ok THEN <<piterKey(r.pi)>> \o Drain(r.pi) ELSE <<>>

\* the keys a prefix scan has yielded are stored keys with the prefix, in
\* ascending order with none skipped, and all of them once Next returned false
YieldsPrefixed(h) ==
    LET want == {k \in h.stored : HasPrefix(k, h.prefix)}
    IN  /\ \A j \in DOMAIN h.out : h.out[j] \in want
        /\ \A j \in DOMAIN h.out :
               {k \in want : PrefixRank(k) < PrefixRank(h.out[j])}
                   = {h.out[n] : n \in 1..(j - 1)}
        /\ h.over => {h.out[j] : j \in DOMAIN h.out} = want

\* a finished prefix scan has yielded what RangeScan(prefix, prefix with its
\* last byte incremented) yields on the same contents
SameAsRange(h) ==
    h.over => h.out = Drain(pstoreRangeScan(h.snap, h.prefix, IncLast(h.prefix)))

\* C11 as stated: PrefixScan(prefix) yields exactly the stored keys with the
\* prefix, ascending, and for every prefix the key sequence of
\* RangeScan(prefix, prefix with its last byte incremented).
C11_AsStated ==
    \A i \in DOMAIN scans : YieldsPrefixed(scans[i]) /\ SameAsRange(scans[i])

\* C11 amended: the same, the equality with the range scan being claimed for
\* the empty prefix and the prefixes whose last byte is below 0xff only.
C11_PrefixScan ==
    \A i \in DOMAIN scans :
        /\ YieldsPrefixed(scans[i])
        /\ (\/ scans[i].prefix = EmptyStr
            \/ scans[i].prefix.pre[Len(scans[i].prefix.pre)] < 255)
               => SameAsRange(scans[i])

\* with "a", "a\xff" and "b" among the stored keys, PrefixScan("a\xff") has
\* yielded "a\xff" alone and Next has returned false
C11_Witness ==
    \E i \in DOMAIN scans :
        /\ {Str(<<97>>, 0), Str(<<97, 255>>, 0), Str(<<98>>, 0)} \subseteq scans[i].stored
        /\ scans[i].prefix = Str(<<97, 255>>, 0)
        /\ scans[i].out = <<Str(<<97, 255>>, 0)>>
        /\ scans[i].over

\* the batch and the contents of s1 after the calls of the goroutines ts made
\* one after the other, each as one whole call
RECURSIVE SeqRun(_, _)
SeqRun(st, ts) ==
    IF ts = <<>> THEN st
    ELSE LET j == job[Head(ts)]
             nx == IF j.op = "Put"
                   THEN [st EXCEPT !.pb = pbatchPut(@, j.key, j.value)]
                   ELSE IF j.op = "Delete"
                   THEN [st EXCEPT !.pb = pbatchDelete(@, j.key)]
                   ELSE [st EXCEPT !.db =
                            pstoreCommitBatch(@, TRUE, st.pb,
                                              ret[Head(ts)].fault).db]
         IN  SeqRun(nx, Tail(ts))

\* the goroutines whose body has run, in the order they acquired errmu
Ran == SelectSeq(order, LAMBDA t : pc[t] \in {"unlock", "done"})

\* the Put and Delete calls ordered before position i of order, as engine
\* records, after the Put made before the goroutines started
RECURSIVE OpsBefore(_)
OpsBefore(i) ==
    IF i <= 1 THEN added[1]
    ELSE LET j == job[order[i - 1]]
         IN  OpsBefore(i - 1) \o
                 (IF j.op = "Put" THEN <<PutRec(AsBytes(j.key), j.value)>>
                  ELSE IF j.op = "Delete" THEN <<DelRec(AsBytes(j.key))>>
                  ELSE <<>>)

\* C12: calls of Put, Delete and CommitBatch on one batch by several
\* goroutines are equivalent to the same calls made one after the other in
\* the order the goroutines acquired the batch's mutex: the batch and the
\* store are those of that sequential run, a goroutine that holds the mutex
\* is the last of the order, and every CommitBatch that has run has handed
\* the engine exactly the operations ordered before it, in that order, or
\* nothing, returning the stored error, when a Put ordered before it failed
\* validation.
C12_Linearizable ==
    /\ \A i \in DOMAIN order :
           pc[order[i]] \in {"guard", "apply"} => i = Len(order) /\ mu = order[i]
    /\ SeqRun([pb |-> Batch0, db |-> Contents0], Ran)
           = [pb |-> batches[1], db |-> db["s1"]]
    /\ \A i \in DOMAIN order :
           LET t == order[i]
           IN  job[t].op = "Commit" /\ pc[t] \in {"unlock", "done"} =>
                   IF \E n \in DOMAIN OpsBefore(i) : Oversized(OpsBefore(i)[n])
                   THEN /\ ret[t].wrote = <<>>
                        /\ ret[t].err =
                               IF KeyOver(OpsBefore(i)[FirstBad(OpsBefore(i))].key)
                               THEN ErrKeyTooLarge ELSE ErrValueTooLarge
                   ELSE /\ ret[t].wrote = OpsBefore(i)
                        /\ ~ret[t].fault => ret[t].err = Nil

\* a CommitBatch that acquired the mutex after a Delete and before a second
\* Put, all three called before any of them ran, has written the first Put
\* and the Delete, and the batch holds the three operations
C12_Witness ==
    /\ Len(order) = 3
    /\ job[order[1]].op = "Delete"
    /\ job[order[2]].op = "Commit"
    /\ job[order[3]].op = "Put"
    /\ order[2] = 1
    /\ \A t \in Threads : pc[t] = "done"
    /\ ret[order[2]].wrote = <<PutRec(AsBytes(KeyMax), ValMax), DelRec(AsBytes(KeyMax))>>
    /\ Len(batches[1].batch) = 3
    /\ KeyMax \notin DOMAIN db["s1"]

\* the contents d after all of the operations ops: a key no operation names
\* is as in d, any other key is as the last operation that names it leaves it
LastOn(ops, k) ==
    CHOOSE i \in DOMAIN ops :
        /\ AsString(ops[i].key) = k
        /\ \A n \in DOMAIN ops : n > i => AsString(ops[n].key) # k

LastWins(d, ops) ==
    LET named == {AsString(ops[i].key) : i \in DOMAIN ops}
        kept == (DOMAIN d \ named) \cup {k \in named : ops[LastOn(ops, k)].type = "put"}
    IN  [k \in kept |->
            IF k \in named THEN AsString(ops[LastOn(ops, k)].value) ELSE d[k]]

\* what a reader of key k finds in the contents d
Found(d, k) ==
    IF k \in DOMAIN d THEN [err |-> Nil, val |-> AsBytes(d[k])]
    ELSE [err |-> ErrKeyNotFound, val |-> NilBytes]

\* C13: a commit becomes visible at once.  The contents of a store change
\* only in the one engine write of a CommitBatch, and then to the contents
\* with all of the batch's operations applied; a Get by another goroutine
\* returns what one state of the contents holds.  A reader therefore finds
\* none of the batch's operations or all of them.
C13_CommitVisibility ==
    [][/\ db' # db =>
              \E t \in Threads :
                  /\ job[t].op = "Commit"
                  /\ pc[t] = "apply" /\ pc'[t] = "unlock"
                  /\ ret'[t].wrote = batches[1].batch
                  /\ db' = [db EXCEPT !["s1"] = LastWins(@, batches[1].batch)]
       /\ \A t \in Threads :
              pc[t] = "idle" /\ pc'[t] = "done" =>
                  /\ [err |-> ret'[t].err, val |-> ret'[t].val]
                         = Found(db["s1"], job'[t].key)
                  /\ db' = db]_vars

\* while a CommitBatch that wrote a Put and a Delete of one key is still in
\* its call, a Get of that key by another goroutine has found the key absent:
\* it was stored before the commit and the Put alone would have left it stored
C13_Witness ==
    \E t, u \in Threads :
        /\ job[u].op = "Commit"
        /\ pc[u] = "unlock"
        /\ ret[u].wrote = <<PutRec(AsBytes(KeyMax), ValMax), DelRec(AsBytes(KeyMax))>>
        /\ job[t].op = "Get"
        /\ pc[t] = "done"
        /\ ret[t].err = ErrKeyNotFound

\* the step is a call of op on iterator i
IterStep(op, i) == calls' = calls + 1 /\ last'.op = op /\ last'.iter = i

\* C14: a closed iterator stays closed, and every Next on it panics, leaving
\* the cursor where it was and yielding nothing; Next on an iterator that is
\* not closed does not panic.
C14_IteratorLifecycle ==
    [][\A i \in DOMAIN iters :
           /\ iters[i].closed => iters'[i].closed
           /\ IterStep("Next", i) =>
                  IF iters[i].closed
                  THEN /\ last'.panic
                       /\ ~last'.ok
                       /\ iters'[i] = iters[i]
                       /\ scans'[i] = scans[i]
                  ELSE ~last'.panic]_vars

\* Next has panicked on an iterator that was closed after it had yielded one
\* key of two
C14_Witness ==
    /\ last.op = "Next"
    /\ last.panic
    /\ iters[last.iter].closed
    /\ iters[last.iter].it.pos = "at"
    /\ Len(scans[last.iter].out) = 1
    /\ Cardinality(scans[last.iter].stored) = 2

\* C15: Close never panics, on a closed iterator as on an open one, and
\* leaves the store unchanged; it leaves the iterator closed and the engine
\* cursor released, and returns the cursor's accumulated error wrapped, or
\* nil when there is none; on a closed iterator it changes nothing and
\* returns what the error of the cursor gives again.
C15_IdempotentClose ==
    [][\A i \in DOMAIN iters :
           IterStep("Close", i) =>
               /\ ~last'.panic
               /\ db' = db
               /\ iters'[i].closed
               /\ iters'[i].it.released
               /\ last'.err = IF iters[i].it.err # Nil
                              THEN "leveldb error: " \o iters[i].it.err ELSE Nil
               /\ iters[i].closed => iters'[i] = iters[i]]_vars

\* a second Close of an iterator whose traversal failed has returned the
\* engine's error, wrapped
C15_Witness ==
    /\ last.op = "Close"
    /\ last.was
    /\ ~last.panic
    /\ last.err = "leveldb error: leveldb: closed"
    /\ iters[last.iter].it.released

\* the operations a call that returned nil applied to its store: its own for
\* Put and Delete, those added to the batch, in the order of the calls that
\* added them, for CommitBatch
Applied(c) ==
    IF c.err # Nil THEN <<>>
    ELSE IF c.op = "Put" THEN <<PutRec(AsBytes(c.key), c.value)>>
    ELSE IF c.op = "Delete" THEN <<DelRec(AsBytes(c.key))>>
    ELSE IF c.op = "CommitBatch" THEN added[c.batch]
    ELSE <<>>

\* C16: the store is a map in which the last write wins.  Every call leaves
\* each key of its store as the last operation it applied to that key leaves
\* it (a Put stored, a Delete absent, a committed batch counting as its
\* operations applied in order at the commit) and every other key and store
\* as they were; a Get in which the engine does not fail returns what the
\* map holds for the key.  Over any history, Get therefore returns the value
\* of the most recent applied Put not followed by an applied Delete.
C16_LastWriteWins ==
    [][calls' = calls + 1 =>
           /\ db' = [db EXCEPT ![last'.store] = LastWins(@, Applied(last'))]
           /\ last'.op = "Get" /\ ~last'.fault =>
                  [err |-> last'.err, val |-> last'.val]
                      = Found(db[last'.store], last'.key)]_vars

\* a Get has returned the value of a Put made through a committed batch
C16_Witness ==
    /\ last.op = "Get"
    /\ last.key = KeyMax
    /\ last.err = Nil
    /\ last.val = ValMax
    /\ 1 \in committed
    /\ added[1] = <<PutRec(AsBytes(KeyMax), ValMax)>>

\* C17: BeginBatch and Put and Delete on a batch hand nothing to the engine
\* and leave every store unchanged, so that a batch that is never committed
\* has no effect; the contents change in calls of Put, Delete and CommitBatch
\* of the store only; the commit of a batch on which nothing was called
\* succeeds, when the engine does not fail, and leaves the store unchanged.
C17_NoWriteBeforeCommit ==
    [][/\ CallStep("BeginBatch") \/ CallStep("BatchPut") \/ CallStep("BatchDelete")
              => last'.wrote = <<>> /\ db' = db
       /\ db' # db => last'.op \in {"Put", "Delete", "CommitBatch"}
       /\ \A b \in DOMAIN batches :
              CommitStep(b) /\ added[b] = <<>> =>
                  /\ db' = db
                  /\ ~last'.fault => last'.err = Nil /\ b \in committed']_vars

\* a Delete of a stored key has been added to a batch that was not committed,
\* and the key is still stored
C17_Witness ==
    /\ last.op = "BatchDelete"
    /\ last.key = KeyMax
    /\ batches[last.batch].batch = <<DelRec(AsBytes(KeyMax))>>
    /\ committed = {}
    /\ KeyMax \in DOMAIN db[origin[last.batch]]

\* C18: a commit that returns nil hands the engine the batch's operations in
\* the order they were added, and each key the batch names ends as its last
\* operation in that order says: stored with the value of a Put (Delete then
\* Put, Put then Put), absent after a Delete (Put then Delete).
C18_BatchOrder ==
    [][\A b \in DOMAIN batches :
           CommitStep(b) /\ last'.err = Nil =>
               /\ last'.wrote = added[b]
               /\ \A i \in DOMAIN added[b] :
                      LET k == AsString(added[b][i].key)
                      IN  (\A n \in DOMAIN added[b] :
                               n > i => AsString(added[b][n].key) # k) =>
                              IF added[b][i].type = "put"
                              THEN /\ k \in DOMAIN db'[last'.store]
                                   /\ db'[last'.store][k] = AsString(added[b][i].value)
                              ELSE k \notin DOMAIN db'[last'.store]]_vars

\* a batch of Delete(k) then Put(k, v) has been committed and k is stored
\* with v
C18_Witness ==
    /\ last.op = "CommitBatch"
    /\ last.err = Nil
    /\ last.batch # Foreign
    /\ added[last.batch] = <<DelRec(AsBytes(KeyMax)), PutRec(AsBytes(KeyMax), ValMax)>>
    /\ KeyMax \in DOMAIN db[last.store]
    /\ db[last.store][KeyMax] = AsString(ValMax)

\* the error of the size validation, as the limits say: the key is judged
\* first, a length equal to a limit passes
SizeError(key, value) ==
    IF KeyOver(key) THEN ErrKeyTooLarge
    ELSE IF ValueOver(value) THEN ErrValueTooLarge
    ELSE Nil

\* C19: the size validation returns KeyTooLarge whenever the key is longer
\* than 16384 bytes, whatever the value, ValueTooLarge when the key is within
\* the limit and the value longer than 65536 bytes, and nil otherwise: this
\* is what Store.Put returns (nil standing for the outcome of the engine
\* write) and what a Put on a batch without a stored error stores as the
\* batch's error.
C19_ValidationOrder ==
    [][/\ CallStep("Put") =>
              IF SizeError(last'.key, last'.value) # Nil
              THEN last'.err = SizeError(last'.key, last'.value)
              ELSE last'.err \notin {ErrKeyTooLarge, ErrValueTooLarge}
       /\ \A b \in DOMAIN batches :
              CallStep("BatchPut") /\ last'.batch = b /\ batches[b].err = Nil =>
                  batches'[b].err = SizeError(last'.key, last'.value)]_vars

\* a Put of an oversized key with an oversized value on a batch has stored
\* KeyTooLarge as the batch's error
C19_Witness ==
    /\ last.op = "BatchPut"
    /\ last.key = KeyBig
    /\ last.value = ValBig
    /\ batches[last.batch].err = ErrKeyTooLarge

=============================================================================
